---- MODULE Spec2Model ----
\* A model of the request-routing and streaming-normalisation layer of ai-warp:
\* the LiteLLM stream transformer, the LiteLLM adapter's buffered and streaming
\* request with the pipeline that feeds the transformer, the LiteLLM undici
\* client (init, request, stream, close, response check), createAiProvider, and
\* the router that walks the candidate list.
EXTENDS Integers, Sequences, FiniteSets, TLC

\* ---------------------------------------------------------------------------
\* Bounds of the model
\* ---------------------------------------------------------------------------

\* total number of upstream records one stream delivers
MaxRecords == 3
\* number of chunks one stream delivers (a chunk may hold no record)
MaxChunks == 3

\* ---------------------------------------------------------------------------
\* Values
\* ---------------------------------------------------------------------------

\* JavaScript's undefined, for string-valued fields
Undefined == "undefined"
\* JSON null, for string-valued fields
Null == "null"

\* an absent id (event.id === undefined)
NoId == <<>>
\* an id carried by an upstream record
UpstreamId == <<"upstream", 1>>

VARIABLES
    \* --- LiteLLMStreamTransformer -------------------------------------------
    chunkCallback,  \* the configured StreamChunkCallback: "none" or "upper"
    fed,            \* every record parsed from the chunks written so far
    chunks,         \* number of chunks written so far
    chunkStart,     \* index in fed of the first record of the latest chunk
    pos,            \* index in fed of the record _transform is handling
    tstate,         \* "idle" | "awaiting" (in chunkCallback) | "errored"
    out,            \* frames pushed to the readable side, oldest first
    nextId,         \* state of createEventId
    pending,        \* the response handed to the chunkCallback being awaited
    callbacks,      \* completion-callback invocations for the current chunk
    sources,        \* history: for each frame of out, the index in fed of its record
    doneAt          \* history: Len(out) when a [DONE] record was first handled, else -1

VARIABLES
    \* --- the router (Ai.request) --------------------------------------------
    models,         \* the configured default list of (provider, model) pairs
    requestModels,  \* the "provider:model" tokens of the request; <<>> if none
    rstate,         \* "PENDING" | "TRYING" | "SUCCEEDED" | "EXHAUSTED"
    candidates,     \* the effective candidate list of the request
    current,        \* index in candidates of the candidate being tried
    attempts,       \* the adapter calls made: candidate, client outcome, adapter outcome
    lastError,      \* the failure of the latest failed candidate
    reply           \* what Ai.request gave the caller: a result or a failure

VARIABLES
    \* --- checkResponse -------------------------------------------------------
    statusCode,     \* response.statusCode
    providerName,   \* the providerName argument
    errorText,      \* what response.body.text() resolves to
    checked,        \* the outcome of checkResponse, NotChecked before the call
    operation,      \* the client operation the response belongs to: "request" | "stream"
    returned        \* what the operation returned: "nothing" (not yet, or it threw) |
                    \* "responseData" (the parsed JSON body) | "Readable" (the body)

VARIABLES
    \* --- one upstream answer taken down both paths of LiteLLMProvider.request -
    finishReason,   \* the finish_reason of the upstream answer
    messageContent, \* the content of the upstream answer
    bufferedResult, \* what the buffered path returned or threw, NoResponse before
    streamedFrames  \* what the streaming path pushed for the answer, <<>> before

VARIABLES
    \* --- the streaming path of LiteLLMProvider.request -----------------------
    sreq,           \* the adapter's request: "none" | "calling" (awaiting
                    \* client.stream) | "returned" | "rejected"
    upstream        \* the byte stream client.stream resolved to: "none" | "open" |
                    \* "ended" | "errored" | "destroyed"

VARIABLES
    \* --- createAiProvider and the LiteLLM client ------------------------------
    providerArg,    \* the provider name createAiProvider is called with
    created,        \* what createAiProvider returned or threw, NotCreated before
    constructed,    \* the adapters constructed so far
    baseUrl,        \* clientOptions.baseUrl: "valid" | "invalid" (new Pool throws)
    apiKeyOption,   \* clientOptions.apiKey
    clientExtraHeaders,  \* clientOptions.extraHeaders
    requestApiKey,       \* the request's options.apiKey
    requestExtraHeaders, \* the request's options.extraHeaders
    initOutcome,    \* client.init: "not called" | "resolved" | "rejected"
    api,            \* the handle init resolved to (this.api), None without one
    pool,           \* the undici pool: "none" | "open" | "closed"
    sent,           \* the HTTP requests made through the pool: operation, headers
    closeOutcome    \* client.close: "not called" | "returned" | "threw"

VARIABLES
    \* --- the message list of LiteLLMProvider.request --------------------------
    contextOption,  \* options.context
    historyOption,  \* options.history: None when undefined, else the interactions
    promptArg,      \* the prompt argument
    builtMessages   \* the messages of the LiteLLMRequest, <<>> before it is built

streamVars == <<chunkCallback, fed, chunks, chunkStart, pos, tstate, out, nextId, pending,
                callbacks, sources, doneAt>>
routerVars == <<models, requestModels, rstate, candidates, current, attempts,
                lastError, reply>>
checkVars == <<statusCode, providerName, errorText, checked, operation, returned>>
finishVars == <<finishReason, messageContent, bufferedResult, streamedFrames>>
pipeVars == <<sreq, upstream>>
clientVars == <<providerArg, created, constructed, baseUrl, apiKeyOption, clientExtraHeaders,
                requestApiKey, requestExtraHeaders, initOutcome, api, pool, sent,
                closeOutcome>>
messageVars == <<contextOption, historyOption, promptArg, builtMessages>>
vars == <<streamVars, routerVars, checkVars, finishVars, pipeVars, clientVars, messageVars>>

\* what an action of one component leaves alone: the other components
besidesStream == <<messageVars, routerVars, checkVars, finishVars, pipeVars, clientVars>>
besidesRouter == <<messageVars, streamVars, checkVars, finishVars, pipeVars, clientVars>>
besidesCheck == <<messageVars, streamVars, routerVars, finishVars, pipeVars, clientVars>>
besidesFinish == <<messageVars, streamVars, routerVars, checkVars, pipeVars, clientVars>>
besidesPipeline == <<messageVars, checkVars, finishVars, clientVars>>
besidesClient == <<messageVars, streamVars, routerVars, checkVars, finishVars, pipeVars>>
besidesMessages == <<streamVars, routerVars, checkVars, finishVars, pipeVars, clientVars>>

\* ---------------------------------------------------------------------------
\* lib/event.ts (not part of the sources at hand: modelled from the spec)
\* ---------------------------------------------------------------------------

\* a parsed record {id?, event?, data?}; data is the raw text of the data line,
\* json what JSON.parse makes of it when it is JSON text
Rec(id, event, str, json) == [id |-> id, event |-> event, data |-> [str |-> str, json |-> json]]

NoJson == [hasDelta |-> FALSE, content |-> Undefined, finish |-> Null]
Delta(content, finish) == [hasDelta |-> TRUE, content |-> content, finish |-> finish]

RawRecords ==
    { Rec(NoId, "error", "{json}", NoJson),
      Rec(NoId, "ping", "{json}", Delta("a", Null)),
      Rec(NoId, Undefined, Undefined, NoJson),
      Rec(NoId, Undefined, "", NoJson),
      Rec(NoId, Undefined, "[DONE]", NoJson),
      Rec(NoId, Undefined, "garbage", NoJson),
      Rec(NoId, Undefined, "{json}", Delta("a", Null)),
      Rec(NoId, Undefined, "{json}", Delta("b", "stop")),
      Rec(UpstreamId, Undefined, "{json}", Delta("a", "stop")),
      Rec(NoId, Undefined, "{json}", Delta(Undefined, "length")),
      Rec(NoId, Undefined, "{json}", Delta(Undefined, "content_filter")) }

\* parseEventStream: the records of one chunk, in arrival order
parseEventStream(chunk) == chunk

\* createEventId: a fresh identifier, assigned monotonically
createEventId(n) == <<"generated", n>>

\* encodeEvent: the frame id / event / data of a canonical event
encodeEvent(e) == <<e.id, e.event, e.data>>

FrameId(f) == f[1]
FrameKind(f) == f[2]
FrameData(f) == f[3]

\* ---------------------------------------------------------------------------
\* providers/litellm.ts
\* ---------------------------------------------------------------------------

LITELLM_PROVIDER_NAME == "LiteLLM"

ProviderResponseNoContentError(name) ==
    [code |-> "PROVIDER_NO_CONTENT_ERROR", message |-> name]

\* mapResponseResult with a slip: no case for 'length'
mapResponseResultWithoutLength(result) ==
    IF result = "stop" THEN "COMPLETE"
    ELSE "INCOMPLETE_UNKNOWN"

\* mapResponseResult, lines 209-219
mapResponseResult(result) ==
    IF result = "stop" THEN "COMPLETE"
    ELSE IF result = "length" THEN "INCOMPLETE_MAX_TOKENS"
    ELSE "INCOMPLETE_UNKNOWN"

\* JavaScript truthiness of a string-valued field
Truthy(s) == s # Undefined /\ s # Null /\ s # ""

\* JSON.parse(event.data) followed by data.choices[0].delta: does it throw
DecodeThrows(data) == data.str # "{json}" \/ ~data.json.hasDelta

\* the StreamChunkCallback's return value
ApplyChunkCallback(response) ==
    CASE response = "a" -> "A"
      [] response = "b" -> "B"
      [] OTHER -> response

\* event.id ?? createEventId(): the id, and the state of createEventId after it
EventIdOf(event, n) ==
    IF event.id # NoId THEN [id |-> event.id, next |-> n]
                       ELSE [id |-> createEventId(n), next |-> n + 1]

\* the state of one _transform call: s.i is the index (in recs) of the record
\* at hand; s.running is FALSE once the call has returned, thrown or suspended
TState(i, o, n, cbs) ==
    [i |-> i, out |-> o, nextId |-> n, tstate |-> "idle", pending |-> "",
     callbacks |-> cbs, running |-> TRUE, sources |-> sources, doneAt |-> doneAt]

\* return callback() / callback() at the end of the loop
ReturnCallback(s) ==
    [s EXCEPT !.tstate = "idle", !.callbacks = s.callbacks + 1, !.running = FALSE]

\* CallbackError with a slip: the catch block does not call the callback
CallbackErrorSwallowed(s) ==
    [s EXCEPT !.tstate = "errored", !.running = FALSE]

\* catch (error) { callback(error) }: the transformer is destroyed with the error
CallbackError(s) ==
    [s EXCEPT !.tstate = "errored", !.callbacks = s.callbacks + 1, !.running = FALSE]

\* lines 158-168: the canonical error event, then return callback()
EmitError(event, s) ==
    LET eid == EventIdOf(event, s.nextId)
        error == ProviderResponseNoContentError(<<LITELLM_PROVIDER_NAME, " stream">>)
        eventData == [id |-> eid.id, event |-> "error", data |-> error]
    IN  ReturnCallback([s EXCEPT !.out = Append(s.out, encodeEvent(eventData)),
                                 !.sources = Append(s.sources, s.i),
                                 !.nextId = eid.next])

\* EmitContent with a slip: a record with a finish reason yields its end event only
EmitContentEndOnly(event, s, response) ==
    LET cid == EventIdOf(event, s.nextId)
        content == [id |-> cid.id, event |-> "content", data |-> [response |-> response]]
        finish == event.data.json.finish
        end == [id |-> cid.id, event |-> "end",
                data |-> [response |-> mapResponseResult(finish)]]
    IN  IF Truthy(finish)
        THEN ReturnCallback([s EXCEPT !.out = Append(s.out, encodeEvent(end)),
                                      !.sources = Append(s.sources, s.i),
                                      !.nextId = cid.next])
        ELSE [s EXCEPT !.out = Append(s.out, encodeEvent(content)),
                       !.sources = Append(s.sources, s.i),
                       !.nextId = cid.next, !.i = s.i + 1]

\* lines 183-199: push the content event for the record with the given
\* response, then the end event and return when the record has a finish reason
EmitContent(event, s, response) ==
    LET cid == EventIdOf(event, s.nextId)
        content == [id |-> cid.id, event |-> "content", data |-> [response |-> response]]
        finish == event.data.json.finish
        eid == EventIdOf(event, cid.next)
        end == [id |-> eid.id, event |-> "end",
                data |-> [response |-> mapResponseResult(finish)]]
        pushed == [s EXCEPT !.out = Append(s.out, encodeEvent(content)),
                            !.sources = Append(s.sources, s.i),
                            !.nextId = cid.next]
    IN  IF Truthy(finish)
        THEN ReturnCallback([pushed EXCEPT !.out = Append(pushed.out, encodeEvent(end)),
                                           !.sources = Append(pushed.sources, s.i),
                                           !.nextId = eid.next])
        ELSE [pushed EXCEPT !.i = s.i + 1]

\* SkipRecord with a slip: a record that is not handled ends the chunk
SkipRecordAndReturn(s) == ReturnCallback(s)

\* neither if of the loop body applies: on to the next record
SkipRecord(s) == [s EXCEPT !.i = s.i + 1]

RECURSIVE TransformLoop(_, _)
\* lines 157-205: the for loop over the records from s.i on, up to the first
\* await of the chunkCallback, a return, a throw, or the end of the chunk
TransformLoop(recs, s) ==
    IF ~s.running THEN s
    ELSE IF s.i > Len(recs) THEN ReturnCallback(s)
    ELSE LET event == recs[s.i] IN
         IF event.event = "error" THEN EmitError(event, s)
         ELSE IF ~Truthy(event.event) /\ Truthy(event.data.str)
         THEN IF event.data.str = "[DONE]"
              THEN ReturnCallback([s EXCEPT !.doneAt = IF s.doneAt = -1 THEN Len(s.out)
                                                                        ELSE s.doneAt])
              ELSE IF DecodeThrows(event.data) THEN CallbackError(s)
              ELSE LET content == event.data.json.content
                       response == IF content = Undefined THEN "" ELSE content
                   IN IF chunkCallback # "none"
                      THEN [s EXCEPT !.tstate = "awaiting", !.pending = response,
                                     !.running = FALSE]
                      ELSE TransformLoop(recs, EmitContent(event, s, response))
         ELSE TransformLoop(recs, SkipRecord(s))

\* the sequences over S of length at most n
SeqsUpTo(S, n) == UNION { [1..k -> S] : k \in 0..n }

\* what a _transform call leaves behind
Commit(s) ==
    /\ pos' = IF s.tstate = "awaiting" THEN s.i ELSE 0
    /\ out' = s.out
    /\ nextId' = s.nextId
    /\ tstate' = s.tstate
    /\ pending' = s.pending
    /\ callbacks' = s.callbacks
    /\ sources' = s.sources
    /\ doneAt' = s.doneAt

\* new LiteLLMStreamTransformer(providerName, chunkCallback)
InitStream ==
    /\ chunkCallback \in {"none", "upper"}
    /\ fed = <<>>
    /\ chunks = 0
    /\ chunkStart = 1
    /\ pos = 0
    /\ tstate = "idle"
    /\ out = <<>>
    /\ nextId = 1
    /\ pending = ""
    /\ callbacks = 0
    /\ sources = <<>>
    /\ doneAt = -1

\* _transform(chunk, encoding, callback), up to its first await, for a chunk
\* of the given records
TransformChunk(records) ==
    /\ tstate = "idle"
    /\ chunks < MaxChunks
    /\ \E chunk \in SeqsUpTo(records, MaxRecords - Len(fed)) :
          /\ fed' = fed \o parseEventStream(chunk)
          /\ Commit(TransformLoop(fed', TState(Len(fed) + 1, out, nextId, 0)))
    /\ chunks' = chunks + 1
    /\ chunkStart' = Len(fed) + 1
    /\ UNCHANGED chunkCallback

\* a chunk is written to the transformer
Transform ==
    /\ TransformChunk(RawRecords)
    /\ UNCHANGED besidesStream

\* ChunkCallbackResolves with a slip: the callback's return value is dropped
ChunkCallbackResolvesDropsRewrite ==
    /\ tstate = "awaiting"
    /\ LET s == [TState(pos, out, nextId, callbacks) EXCEPT !.pending = pending]
       IN Commit(TransformLoop(fed, EmitContent(fed[pos], s, pending)))
    /\ UNCHANGED <<chunkCallback, fed, chunks, chunkStart, besidesStream>>

\* line 180: the awaited chunkCallback resolves; _transform goes on from there
ChunkCallbackResolves ==
    /\ tstate = "awaiting"
    /\ LET s == [TState(pos, out, nextId, callbacks) EXCEPT !.pending = pending]
           response == ApplyChunkCallback(pending)
       IN Commit(TransformLoop(fed, EmitContent(fed[pos], s, response)))
    /\ UNCHANGED <<chunkCallback, fed, chunks, chunkStart, besidesStream>>

\* line 180: the awaited chunkCallback rejects; the catch block runs
ChunkCallbackRejects ==
    /\ tstate = "awaiting"
    /\ Commit(CallbackError(TState(pos, out, nextId, callbacks)))
    /\ UNCHANGED <<chunkCallback, fed, chunks, chunkStart, besidesStream>>

NextStream ==
    \/ Transform
    \/ ChunkCallbackResolves
    \/ ChunkCallbackRejects

\* ---------------------------------------------------------------------------
\* The buffered request of the adapters
\* ---------------------------------------------------------------------------

\* an optional value: undefined, or a value
None == [def |-> FALSE]
Some(v) == [def |-> TRUE, val |-> v]

\* o?.f on an object, and o?.[0] on an array
Get(o, f) == IF o.def /\ f \in DOMAIN o.val THEN Some(o.val[f]) ELSE None
First(o) == IF o.def /\ Len(o.val) >= 1 THEN Some(o.val[1]) ELSE None

\* !text
Falsy(text) == ~text.def \/ text.val = ""

Providers == {"openai", "deepseek", "gemini", "litellm"}

\* the providerName of each adapter
ProviderNameOf(provider) ==
    CASE provider = "openai" -> "OpenAI"
      [] provider = "deepseek" -> "DeepSeek"
      [] provider = "gemini" -> "Gemini"
      [] provider = "litellm" -> LITELLM_PROVIDER_NAME

\* the model each provider is configured with in the tests
ModelOf(provider) ==
    CASE provider = "openai" -> "gpt-4o-mini"
      [] provider = "deepseek" -> "deepseek-chat"
      [] provider = "gemini" -> "gemini-1.5-flash"
      [] provider = "litellm" -> "someModelAliasRegisterdInLiteLLM"

\* the text the test's client of each provider answers with
TestText(provider) ==
    CASE provider = "openai" -> "Response from OpenAI"
      [] provider = "deepseek" -> "Response from DeepSeek"
      [] provider = "gemini" -> "Response from Gemini"
      [] provider = "litellm" -> "Response from LiteLLM"

ChoicesBody(text) == [choices |-> << [message |-> [content |-> text]] >>]
CandidatesBody(text) == [candidates |-> << [content |-> [parts |-> << [text |-> text] >>]] >>]

\* the response the test's client of each provider resolves to
TestResponse(provider) ==
    IF provider \in {"gemini", "litellm"}
    THEN CandidatesBody(TestText(provider))
    ELSE ChoicesBody(TestText(provider))

\* what client.request may resolve to for a provider
ResponseBodies(provider) ==
    { [object |-> "chat.completion"],
      [choices |-> <<>>],
      [choices |-> << [finish_reason |-> "stop"] >>],
      [choices |-> << [message |-> [role |-> "assistant"], finish_reason |-> "stop"] >>],
      [choices |-> << [message |-> [role |-> "assistant", content |-> ""], finish_reason |-> "stop"] >>],
      [choices |-> << [message |-> [role |-> "assistant", content |-> TestText(provider)],
                       finish_reason |-> "length"] >>],
      ChoicesBody(TestText(provider)),
      CandidatesBody(TestText(provider)) }

ProviderExceededQuotaError(message) ==
    [code |-> "PROVIDER_EXCEEDED_QUOTA_ERROR", message |-> message]
ProviderResponseError(message) ==
    [code |-> "PROVIDER_RESPONSE_ERROR", message |-> message]

\* what client.request may do: reject with an error, or resolve to a body
ClientOutcomes(provider) ==
    { [threw |-> TRUE, error |-> ProviderExceededQuotaError(<<ProviderNameOf(provider), "429">>)],
      [threw |-> TRUE, error |-> ProviderResponseError(<<ProviderNameOf(provider), "500">>)] }
    \cup { [threw |-> FALSE, body |-> b] : b \in ResponseBodies(provider) }

Failed(error) == [ok |-> FALSE, error |-> error]
Content(text, result) == [ok |-> TRUE, text |-> text, result |-> result]

\* response.choices?.[0]?.finish_reason
FinishReasonOf(body) ==
    LET f == Get(First(Get(Some(body), "choices")), "finish_reason")
    IN IF f.def THEN f.val ELSE Undefined

\* LiteLLMRequest with a slip: text === undefined in place of !text
LiteLLMRequestAcceptsEmptyText(client) ==
    IF client.threw THEN Failed(client.error)
    ELSE LET text == Get(Get(First(Get(Some(client.body), "choices")), "message"), "content")
         IN IF ~text.def
            THEN Failed(ProviderResponseNoContentError(<<LITELLM_PROVIDER_NAME>>))
            ELSE Content(text.val, mapResponseResult(FinishReasonOf(client.body)))

\* LiteLLMProvider.request, lines 113-126: the buffered path, given what
\* client.request did
LiteLLMRequest(client) ==
    IF client.threw THEN Failed(client.error)
    ELSE LET text == Get(Get(First(Get(Some(client.body), "choices")), "message"), "content")
         IN IF Falsy(text)
            THEN Failed(ProviderResponseNoContentError(<<LITELLM_PROVIDER_NAME>>))
            ELSE Content(text.val, mapResponseResult(FinishReasonOf(client.body)))

\* the OpenAI-shaped adapters (openai, deepseek): text under choices[0].message.content
OpenAIRequest(provider, client) ==
    IF client.threw THEN Failed(client.error)
    ELSE LET text == Get(Get(First(Get(Some(client.body), "choices")), "message"), "content")
         IN IF Falsy(text)
            THEN Failed(ProviderResponseNoContentError(<<ProviderNameOf(provider)>>))
            ELSE Content(text.val, mapResponseResult(FinishReasonOf(client.body)))

\* the Gemini-shaped adapter: text under candidates[0].content.parts[0].text
GeminiRequest(client) ==
    IF client.threw THEN Failed(client.error)
    ELSE LET candidate == First(Get(Some(client.body), "candidates"))
             text == Get(First(Get(Get(candidate, "content"), "parts")), "text")
             finish == Get(candidate, "finishReason")
         IN IF Falsy(text)
            THEN Failed(ProviderResponseNoContentError(<<ProviderNameOf("gemini")>>))
            ELSE Content(text.val, mapResponseResult(IF finish.def THEN finish.val ELSE Undefined))

\* createAiProvider, then the adapter's request(model, prompt, options)
AdapterRequest(provider, client) ==
    CASE provider = "openai" -> OpenAIRequest(provider, client)
      [] provider = "deepseek" -> OpenAIRequest(provider, client)
      [] provider = "gemini" -> GeminiRequest(client)
      [] provider = "litellm" -> LiteLLMRequest(client)

\* ---------------------------------------------------------------------------
\* The router (lib/ai.ts is not part of the sources at hand: modelled from the
\* spec, section 4.5, and from test/provider.test.ts)
\* ---------------------------------------------------------------------------

\* number of candidates a list holds at most
MaxCandidates == 2

Candidate(provider) == [provider |-> provider, model |-> ModelOf(provider)]

\* a "provider:model" token, as the pair of its two sides
Token(candidate) == <<candidate.provider, candidate.model>>
ParseToken(token) == [provider |-> token[1], model |-> token[2]]

\* the candidate lists: non-empty, no candidate twice
CandidateLists ==
    { l \in SeqsUpTo({ Candidate(p) : p \in Providers }, MaxCandidates) :
        /\ Len(l) >= 1
        /\ \A i \in 1..Len(l) : \A j \in 1..Len(l) : i # j => l[i] # l[j] }

TokenLists == { [i \in 1..Len(l) |-> Token(l[i])] : l \in CandidateLists }

\* ResolveCandidates with a slip: the request's models are ignored
ResolveCandidatesIgnoresRequest(configured, requested) == configured

\* step 1: the request's models when it names any, else the configured list
ResolveCandidates(configured, requested) ==
    IF requested # <<>>
    THEN [i \in 1..Len(requested) |-> ParseToken(requested[i])]
    ELSE configured

NoError == [code |-> "", message |-> <<>>]
NoResponse == [ok |-> FALSE, error |-> NoError]

\* new Ai({providers, models}), init()
InitRouter ==
    /\ models \in CandidateLists
    /\ requestModels = <<>>
    /\ rstate = "PENDING"
    /\ candidates = <<>>
    /\ current = 0
    /\ attempts = <<>>
    /\ lastError = NoError
    /\ reply = NoResponse

\* ai.request({models?, prompt}): resolve the list, try the first candidate
RouterRequest ==
    /\ rstate = "PENDING"
    /\ \E requested \in {<<>>} \cup TokenLists :
          /\ requestModels' = requested
          /\ candidates' = ResolveCandidates(models, requested)
    /\ current' = 1
    /\ rstate' = "TRYING"
    /\ UNCHANGED <<models, attempts, lastError, reply, besidesRouter>>

\* the adapter call of the candidate being tried, given what its client does
Attempt(client) ==
    [candidate |-> candidates[current], client |-> client,
     outcome |-> AdapterRequest(candidates[current].provider, client)]

\* CandidateSucceeds with a slip: the loop goes on to the next candidate
CandidateSucceedsAndGoesOn ==
    /\ rstate = "TRYING"
    /\ \E client \in ClientOutcomes(candidates[current].provider) :
          /\ Attempt(client).outcome.ok
          /\ attempts' = Append(attempts, Attempt(client))
          /\ reply' = Attempt(client).outcome
    /\ IF current < Len(candidates)
       THEN current' = current + 1 /\ UNCHANGED rstate
       ELSE rstate' = "SUCCEEDED" /\ UNCHANGED current
    /\ UNCHANGED <<models, requestModels, candidates, lastError,
                   besidesRouter>>

\* step 2: the adapter call of the current candidate completes without throwing
CandidateSucceeds ==
    /\ rstate = "TRYING"
    /\ \E client \in ClientOutcomes(candidates[current].provider) :
          /\ Attempt(client).outcome.ok
          /\ attempts' = Append(attempts, Attempt(client))
          /\ reply' = Attempt(client).outcome
    /\ rstate' = "SUCCEEDED"
    /\ UNCHANGED <<models, requestModels, candidates, current, lastError,
                   besidesRouter>>

\* CandidateFails with a slip: the first failure is kept, not the last
CandidateFailsKeepsFirstError ==
    /\ rstate = "TRYING"
    /\ \E client \in ClientOutcomes(candidates[current].provider) :
          /\ ~Attempt(client).outcome.ok
          /\ attempts' = Append(attempts, Attempt(client))
          /\ lastError' = IF lastError = NoError THEN Attempt(client).outcome.error
                                                 ELSE lastError
    /\ IF current < Len(candidates)
       THEN /\ current' = current + 1
            /\ UNCHANGED <<rstate, reply>>
       ELSE /\ rstate' = "EXHAUSTED"
            /\ reply' = Failed(lastError')
            /\ UNCHANGED current
    /\ UNCHANGED <<models, requestModels, candidates, besidesRouter>>

\* CandidateFails with a slip: a candidate that failed is called once more
CandidateFailsRetriesOnce ==
    /\ rstate = "TRYING"
    /\ \E client \in ClientOutcomes(candidates[current].provider) :
          /\ ~Attempt(client).outcome.ok
          /\ attempts' = Append(attempts, Attempt(client))
          /\ lastError' = Attempt(client).outcome.error
    /\ IF Len(attempts) < current
       THEN UNCHANGED <<current, rstate, reply>>
       ELSE IF current < Len(candidates)
       THEN /\ current' = current + 1
            /\ UNCHANGED <<rstate, reply>>
       ELSE /\ rstate' = "EXHAUSTED"
            /\ reply' = Failed(lastError')
            /\ UNCHANGED current
    /\ UNCHANGED <<models, requestModels, candidates, besidesRouter>>

\* steps 2 and 3: the adapter call of the current candidate throws; the next
\* candidate is tried, or the last failure is propagated
CandidateFails ==
    /\ rstate = "TRYING"
    /\ \E client \in ClientOutcomes(candidates[current].provider) :
          /\ ~Attempt(client).outcome.ok
          /\ attempts' = Append(attempts, Attempt(client))
          /\ lastError' = Attempt(client).outcome.error
    /\ IF current < Len(candidates)
       THEN /\ current' = current + 1
            /\ UNCHANGED <<rstate, reply>>
       ELSE /\ rstate' = "EXHAUSTED"
            /\ reply' = Failed(lastError')
            /\ UNCHANGED current
    /\ UNCHANGED <<models, requestModels, candidates, besidesRouter>>

NextRouter ==
    \/ RouterRequest
    \/ CandidateSucceeds
    \/ CandidateFails

\* ---------------------------------------------------------------------------
\* providers/lib/litellm-undici-client.ts: the default response check
\* ---------------------------------------------------------------------------

\* text is a sequence of characters here, so that building a message is a
\* concatenation an embedding can be checked against

RECURSIVE NumberToString(_)
\* `${response.statusCode}`: the decimal digits of a number
NumberToString(n) ==
    LET digit(d) == <<"0", "1", "2", "3", "4", "5", "6", "7", "8", "9">>[d + 1]
    IN IF n < 10 THEN <<digit(n)>>
       ELSE NumberToString(n \div 10) \o <<digit(n % 10)>>

\* `${providerName} Response: ${response.statusCode} - ${errorText}`
ResponseMessage(name, status, text) ==
    name \o <<" ", "R", "e", "s", "p", "o", "n", "s", "e", ":", " ">>
         \o NumberToString(status) \o <<" ", "-", " ">> \o text

\* error.message: each error class puts its own words before the message it is given
MessageOf(error) ==
    (IF error.code = "PROVIDER_EXCEEDED_QUOTA_ERROR"
     THEN <<"A", "i", " ", "P", "r", "o", "v", "i", "d", "e", "r", " ",
            "R", "e", "s", "p", "o", "n", "s", "e", ":", " ">>
     ELSE <<"A", "i", " ", "P", "r", "o", "v", "i", "d", "e", "r", " ",
            "R", "e", "s", "p", "o", "n", "s", "e", " ", "e", "r", "r", "o", "r", ":", " ">>)
    \o error.message

NotChecked == [state |-> "not checked", code |-> "", message |-> <<>>]
Passed == [state |-> "passed", code |-> "", message |-> <<>>]
Threw(error) == [state |-> "threw", code |-> error.code, message |-> MessageOf(error)]

\* checkResponse with a slip: no case for status 429
checkResponseWithoutQuota(status, name, text) ==
    IF status # 200
    THEN Threw(ProviderResponseError(ResponseMessage(name, status, text)))
    ELSE Passed

\* checkResponse(response, context, providerName), lines 7-16
checkResponse(status, name, text) ==
    IF status # 200
    THEN IF status = 429
         THEN Threw(ProviderExceededQuotaError(ResponseMessage(name, status, text)))
         ELSE Threw(ProviderResponseError(ResponseMessage(name, status, text)))
    ELSE Passed

StatusCodes == {200, 201, 204, 301, 400, 404, 429, 500, 503}

ClientProviderNames ==
    { <<"L", "i", "t", "e", "L", "L", "M">>,
      <<"T", "e", "s", "t", "P", "r", "o", "v", "i", "d", "e", "r">> }

ErrorTexts ==
    { <<>>,
      <<"O", "K">>,
      <<"4", "2", "9">>,
      <<"R", "a", "t", "e", " ", "l", "i", "m", "i", "t", " ", "e", "x", "c", "e", "e", "d", "e", "d">>,
      <<"I", "n", "t", "e", "r", "n", "a", "l", " ", "S", "e", "r", "v", "e", "r", " ", "E", "r", "r", "o", "r">> }

\* a response has arrived; the check has not run yet
InitCheck ==
    /\ statusCode \in StatusCodes
    /\ providerName \in ClientProviderNames
    /\ errorText \in ErrorTexts
    /\ checked = NotChecked
    /\ operation \in {"request", "stream"}
    /\ returned = "nothing"

\* lines 61-66 and 86-92: what the operation returns once the check is through
ReturnBody(op, outcome) ==
    IF outcome.state = "passed"
    THEN IF op = "request" THEN "responseData" ELSE "Readable"
    ELSE "nothing"

\* await checkResponseFn(response, context, providerName), then the return
CheckResponse ==
    /\ checked = NotChecked
    /\ checked' = checkResponse(statusCode, providerName, errorText)
    /\ returned' = ReturnBody(operation, checked')
    /\ UNCHANGED <<statusCode, providerName, errorText, operation, besidesCheck>>

NextCheck == CheckResponse

\* ---------------------------------------------------------------------------
\* One upstream answer on the buffered path and on the streaming path
\* ---------------------------------------------------------------------------

FinishReasons ==
    { Undefined, Null, "", "stop", "length", "content_filter", "tool_calls",
      "function_call", "STOP", "Length", "max_tokens", "COMPLETE" }

MessageContents == { "a", "b", Undefined }

\* the body client.request resolves to: choices[0].message.content and
\* choices[0].finish_reason, each present unless undefined
CompletionBody(content, finish) ==
    LET message == IF content = Undefined
                   THEN [role |-> "assistant"]
                   ELSE [role |-> "assistant", content |-> content]
    IN IF finish = Undefined
       THEN [choices |-> << [message |-> message] >>]
       ELSE [choices |-> << [message |-> message, finish_reason |-> finish] >>]

\* the record the byte stream carries: choices[0].delta.content and
\* choices[0].finish_reason
CompletionRecord(content, finish) == Rec(NoId, Undefined, "{json}", Delta(content, finish))

InitFinish ==
    /\ finishReason \in FinishReasons
    /\ messageContent \in MessageContents
    /\ bufferedResult = NoResponse
    /\ streamedFrames = <<>>

\* request(model, prompt, {stream: false}), lines 113-126
BufferedRequest ==
    /\ bufferedResult = NoResponse
    /\ bufferedResult' = LiteLLMRequest([threw |-> FALSE,
                                         body |-> CompletionBody(messageContent, finishReason)])
    /\ UNCHANGED <<finishReason, messageContent, streamedFrames, besidesFinish>>

\* request(model, prompt, {stream: true}): the transformer handles the one chunk
StreamedRequest ==
    /\ streamedFrames = <<>>
    /\ streamedFrames' =
          TransformLoop(<<CompletionRecord(messageContent, finishReason)>>,
                        TState(1, <<>>, 1, 0)).out
    /\ UNCHANGED <<finishReason, messageContent, bufferedResult, besidesFinish>>

NextFinish ==
    \/ BufferedRequest
    \/ StreamedRequest

\* ---------------------------------------------------------------------------
\* The streaming path: the router, LiteLLMProvider.request with stream: true,
\* the pipeline from the byte stream into the transformer
\* ---------------------------------------------------------------------------

\* the records the byte stream of a streamed request carries
PipeRecords ==
    { Rec(NoId, "error", "{json}", NoJson),
      Rec(NoId, Undefined, "garbage", NoJson),
      Rec(NoId, Undefined, "{json}", Delta("a", Null)),
      Rec(NoId, Undefined, "{json}", Delta("b", "stop")) }

\* the candidate lists of a streamed request: LiteLLM model aliases
StreamingCandidateLists ==
    { << [provider |-> "litellm", model |-> ModelOf("litellm")] >>,
      << [provider |-> "litellm", model |-> ModelOf("litellm")],
         [provider |-> "litellm", model |-> "anotherModelAlias"] >> }

\* what client.stream may reject with
StreamFailures ==
    { ProviderExceededQuotaError(<<LITELLM_PROVIDER_NAME, "429">>),
      ProviderResponseError(<<LITELLM_PROVIDER_NAME, "500">>) }

\* the transformer, as the result of the adapter's request
StreamResult == [ok |-> TRUE, stream |-> "LiteLLMStreamTransformer"]

InitPipeline ==
    /\ InitStream
    /\ models \in StreamingCandidateLists
    /\ requestModels = <<>>
    /\ rstate = "PENDING"
    /\ candidates = <<>>
    /\ current = 0
    /\ attempts = <<>>
    /\ lastError = NoError
    /\ reply = NoResponse
    /\ sreq = "none"
    /\ upstream = "none"

\* ai.request({prompt, options: {stream: true}}): the first candidate's adapter
\* is called, and awaits client.stream (line 98)
StreamingRequest ==
    /\ rstate = "PENDING"
    /\ candidates' = ResolveCandidates(models, requestModels)
    /\ current' = 1
    /\ rstate' = "TRYING"
    /\ sreq' = "calling"
    /\ UNCHANGED <<models, requestModels, attempts, lastError, reply, upstream,
                   streamVars, besidesPipeline>>

\* ClientStreamRejects with a slip: the adapter catches the failure of
\* client.stream and returns a transformer nothing is piped into
ClientStreamRejectsReturnsTransformer ==
    /\ rstate = "TRYING"
    /\ sreq = "calling"
    /\ \E error \in StreamFailures :
          attempts' = Append(attempts, [candidate |-> candidates[current],
                                        client |-> [threw |-> TRUE, error |-> error],
                                        outcome |-> StreamResult])
    /\ sreq' = "returned"
    /\ reply' = StreamResult
    /\ rstate' = "SUCCEEDED"
    /\ UNCHANGED <<models, requestModels, candidates, current, lastError, upstream,
                   streamVars, besidesPipeline>>

\* line 98: client.stream rejects, and so does the adapter's request; the router
\* calls the next candidate's adapter, or propagates the failure
ClientStreamRejects ==
    /\ rstate = "TRYING"
    /\ sreq = "calling"
    /\ \E error \in StreamFailures :
          /\ attempts' = Append(attempts, [candidate |-> candidates[current],
                                           client |-> [threw |-> TRUE, error |-> error],
                                           outcome |-> Failed(error)])
          /\ lastError' = error
    /\ IF current < Len(candidates)
       THEN /\ current' = current + 1
            /\ UNCHANGED <<rstate, reply, sreq>>
       ELSE /\ rstate' = "EXHAUSTED"
            /\ reply' = Failed(lastError')
            /\ sreq' = "rejected"
            /\ UNCHANGED current
    /\ UNCHANGED <<models, requestModels, candidates, upstream, streamVars,
                   besidesPipeline>>

\* ClientStreamResolves with a slip: the pipeline is awaited before the
\* transformer is returned
ClientStreamResolvesAwaitsPipeline ==
    /\ rstate = "TRYING"
    /\ sreq = "calling"
    /\ upstream = "none"
    /\ upstream' = "open"
    /\ UNCHANGED <<sreq, routerVars, streamVars, besidesPipeline>>

\* lines 98-110: client.stream resolves to the byte stream; the transformer is
\* constructed, the pipeline is started and not awaited, the transformer is
\* returned; the router returns it to its caller
ClientStreamResolves ==
    /\ rstate = "TRYING"
    /\ sreq = "calling"
    /\ upstream = "none"
    /\ upstream' = "open"
    /\ sreq' = "returned"
    /\ attempts' = Append(attempts, [candidate |-> candidates[current],
                                     client |-> [threw |-> FALSE, body |-> "Readable"],
                                     outcome |-> StreamResult])
    /\ reply' = StreamResult
    /\ rstate' = "SUCCEEDED"
    /\ UNCHANGED <<models, requestModels, candidates, current, lastError,
                   streamVars, besidesPipeline>>

\* line 104: the pipeline writes a chunk of the byte stream to the transformer
PipelineWrites ==
    /\ upstream = "open"
    /\ TransformChunk(PipeRecords)
    /\ UNCHANGED <<routerVars, pipeVars, besidesPipeline>>

\* the byte stream ends
UpstreamEnds ==
    /\ upstream = "open"
    /\ tstate # "errored"
    /\ upstream' = "ended"
    /\ UNCHANGED <<sreq, routerVars, streamVars, besidesPipeline>>

\* the byte stream fails (the connection breaks), which destroys it
UpstreamErrors ==
    /\ upstream = "open"
    /\ upstream' = "errored"
    /\ UNCHANGED <<sreq, routerVars, streamVars, besidesPipeline>>

\* PipelineDestroysUpstream with a slip: the byte stream is piped into the
\* transformer without a pipeline, and stays open when the transformer fails
PipeLeavesUpstreamOpen ==
    /\ tstate = "errored"
    /\ upstream = "open"
    /\ UNCHANGED vars

\* PipelineDestroysUpstream with a slip: the failure of the transformer is
\* turned into a failure of the request
PipelineFailureFailsRequest ==
    /\ tstate = "errored"
    /\ upstream = "open"
    /\ upstream' = "destroyed"
    /\ sreq' = "rejected"
    /\ rstate' = "EXHAUSTED"
    /\ lastError' = ProviderResponseError(<<LITELLM_PROVIDER_NAME, "stream">>)
    /\ reply' = Failed(lastError')
    /\ UNCHANGED <<models, requestModels, candidates, current, attempts,
                   streamVars, besidesPipeline>>

\* line 104: the transformer has failed, the pipeline destroys the byte stream
PipelineDestroysUpstream ==
    /\ tstate = "errored"
    /\ upstream = "open"
    /\ upstream' = "destroyed"
    /\ UNCHANGED <<sreq, routerVars, streamVars, besidesPipeline>>

\* lines 104-108: the byte stream has failed, the pipeline destroys the
\* transformer with the error, which the holder of the transformer observes
PipelineDestroysTransformer ==
    /\ upstream = "errored"
    /\ tstate # "errored"
    /\ tstate' = "errored"
    /\ UNCHANGED <<chunkCallback, fed, chunks, chunkStart, pos, out, nextId, pending,
                   callbacks, sources, doneAt, routerVars, pipeVars, besidesPipeline>>

NextPipeline ==
    \/ StreamingRequest
    \/ ClientStreamRejects
    \/ ClientStreamResolves
    \/ PipelineWrites
    \/ ChunkCallbackResolves
    \/ ChunkCallbackRejects
    \/ UpstreamEnds
    \/ UpstreamErrors
    \/ PipelineDestroysUpstream
    \/ PipelineDestroysTransformer

\* ---------------------------------------------------------------------------
\* lib/provider.ts: createAiProvider
\* ---------------------------------------------------------------------------

ProviderArgs == Providers \cup { "anthropic", "OpenAI", "lite-llm", "" }

OptionError(message) == [code |-> "OPTION_ERROR", message |-> message]

Constructed(adapter) == [ok |-> TRUE, adapter |-> adapter]

\* createAiProvider with a slip: an unknown name falls back to the first adapter
createAiProviderFallsBack(provider) ==
    CASE provider = "openai" -> Constructed("OpenAIProvider")
      [] provider = "deepseek" -> Constructed("DeepSeekProvider")
      [] provider = "gemini" -> Constructed("GeminiProvider")
      [] provider = "litellm" -> Constructed("LiteLLMProvider")
      [] OTHER -> Constructed("OpenAIProvider")

\* createAiProvider(provider, options, client), lines 109-127
createAiProvider(provider) ==
    CASE provider = "openai" -> Constructed("OpenAIProvider")
      [] provider = "deepseek" -> Constructed("DeepSeekProvider")
      [] provider = "gemini" -> Constructed("GeminiProvider")
      [] provider = "litellm" -> Constructed("LiteLLMProvider")
      [] OTHER -> Failed(OptionError(<<"Provider ", provider, " not supported">>))

NotCreated == [ok |-> FALSE, error |-> NoError]

\* ---------------------------------------------------------------------------
\* providers/lib/litellm-undici-client.ts: init, request, stream, close
\* ---------------------------------------------------------------------------

NoHeaders == [n \in {} |-> <<>>]

\* {...a, ...b}: the properties of both, those of b winning
Spread(a, b) == b @@ a

\* `Bearer ${key}`
Bearer(key) == <<"Bearer ", key>>

ApiKeys == { "", Undefined, "sk-configured" }
RequestApiKeys == { Undefined, "sk-override" }
ClientExtraHeaders == { NoHeaders, "X-Tenant" :> <<"t1">> }
RequestExtraHeaders == { NoHeaders, "X-Session" :> <<"s1">> }

UNDICI_USER_AGENT == <<"undici">>

\* init, lines 24-33: the headers of the handle
InitHeaders(apiKey, userAgent) ==
    Spread(IF Truthy(apiKey) THEN "Authorization" :> Bearer(apiKey) ELSE NoHeaders,
           ("Content-Type" :> <<"application/json">>) @@ ("User-Agent" :> userAgent))

\* litellm.ts lines 85-95: the LiteLLMRequest the adapter builds from the
\* request options; options.apiKey and options.extraHeaders are not copied
BuildRequest(model, options) == [model |-> model, stream |-> options.stream]

\* request, line 44: the headers of the HTTP request
RequestHeaders(handle, req) ==
    LET extra == IF "extraHeaders" \in DOMAIN req THEN req.extraHeaders ELSE NoHeaders
        virtual == IF "virtualKey" \in DOMAIN req /\ Truthy(req.virtualKey)
                   THEN "Authorization" :> Bearer(req.virtualKey)
                   ELSE NoHeaders
    IN Spread(Spread(handle.headers, extra), virtual)

\* stream, line 75: the headers of the HTTP request
StreamHeaders(handle, req) == handle.headers

\* close, lines 34-36: client.pool.close() on the handle it is given
Close(handle) ==
    IF handle.def /\ "pool" \in DOMAIN handle.val THEN "returned" ELSE "threw"

\* an application configured with a provider name and the LiteLLM client options
InitClient ==
    /\ providerArg \in ProviderArgs
    /\ created = NotCreated
    /\ constructed = <<>>
    /\ baseUrl \in {"valid", "invalid"}
    /\ apiKeyOption \in ApiKeys
    /\ clientExtraHeaders \in ClientExtraHeaders
    /\ requestApiKey \in RequestApiKeys
    /\ requestExtraHeaders \in RequestExtraHeaders
    /\ initOutcome = "not called"
    /\ api = None
    /\ pool = "none"
    /\ sent = <<>>
    /\ closeOutcome = "not called"

\* createAiProvider(provider, options)
CreateAiProvider ==
    /\ created = NotCreated
    /\ created' = createAiProvider(providerArg)
    /\ constructed' = IF created'.ok THEN Append(constructed, created'.adapter)
                                       ELSE constructed
    /\ UNCHANGED <<providerArg, baseUrl, apiKeyOption, clientExtraHeaders, requestApiKey,
                   requestExtraHeaders, initOutcome, api, pool, sent, closeOutcome,
                   besidesClient>>

\* the LiteLLM adapter's init: this.api = await client.init(...); new undici.Pool
\* throws on a base URL it cannot parse, and init rejects without a handle
ClientInit ==
    /\ created.ok
    /\ created.adapter = "LiteLLMProvider"
    /\ initOutcome = "not called"
    /\ IF baseUrl = "valid"
       THEN LET apiKey == IF apiKeyOption = Undefined THEN "" ELSE apiKeyOption
            IN /\ api' = Some([pool |-> "Pool",
                               headers |-> InitHeaders(apiKey, UNDICI_USER_AGENT)])
               /\ pool' = "open"
               /\ initOutcome' = "resolved"
       ELSE /\ initOutcome' = "rejected"
            /\ UNCHANGED <<api, pool>>
    /\ UNCHANGED <<providerArg, created, constructed, baseUrl, apiKeyOption,
                   clientExtraHeaders, requestApiKey, requestExtraHeaders, sent,
                   closeOutcome, besidesClient>>

\* the options of the request the application makes
RequestOptions(stream) ==
    [stream |-> stream, apiKey |-> requestApiKey, extraHeaders |-> requestExtraHeaders]

\* adapter.request with stream: false: client.request posts through the pool
SendRequest ==
    /\ api.def
    /\ pool = "open"
    /\ \A i \in 1..Len(sent) : sent[i].operation # "request"
    /\ LET req == BuildRequest(ModelOf("litellm"), RequestOptions(FALSE))
       IN sent' = Append(sent, [operation |-> "request",
                                headers |-> RequestHeaders(api.val, req)])
    /\ UNCHANGED <<providerArg, created, constructed, baseUrl, apiKeyOption,
                   clientExtraHeaders, requestApiKey, requestExtraHeaders, initOutcome,
                   api, pool, closeOutcome, besidesClient>>

\* adapter.request with stream: true: client.stream posts through the pool
SendStream ==
    /\ api.def
    /\ pool = "open"
    /\ \A i \in 1..Len(sent) : sent[i].operation # "stream"
    /\ LET req == BuildRequest(ModelOf("litellm"), RequestOptions(TRUE))
       IN sent' = Append(sent, [operation |-> "stream",
                                headers |-> StreamHeaders(api.val, req)])
    /\ UNCHANGED <<providerArg, created, constructed, baseUrl, apiKeyOption,
                   clientExtraHeaders, requestApiKey, requestExtraHeaders, initOutcome,
                   api, pool, closeOutcome, besidesClient>>

\* client.close(this.api, context), after init has settled either way
ClientClose ==
    /\ initOutcome # "not called"
    /\ closeOutcome = "not called"
    /\ closeOutcome' = Close(api)
    /\ pool' = IF closeOutcome' = "returned" THEN "closed" ELSE pool
    /\ UNCHANGED <<providerArg, created, constructed, baseUrl, apiKeyOption,
                   clientExtraHeaders, requestApiKey, requestExtraHeaders, initOutcome,
                   api, sent, besidesClient>>

NextClient ==
    \/ CreateAiProvider
    \/ ClientInit
    \/ SendRequest
    \/ SendStream
    \/ ClientClose

\* ---------------------------------------------------------------------------
\* providers/litellm.ts: the message list of a request
\* ---------------------------------------------------------------------------

\* number of interactions a chat history holds at most
MaxHistory == 2

Message(role, content) == [role |-> role, content |-> content]

Contexts == { Undefined, "", "be brief" }
Interactions == { [prompt |-> q, response |-> r] : q \in {"q1", "q2"}, r \in {"r1", "r2"} }
Histories == { None } \cup { Some(h) : h \in SeqsUpTo(Interactions, MaxHistory) }
Prompts == { "q1", "p" }

RECURSIVE InteractionsToMessages(_)
\* lines 135-138: the for loop over the interactions
InteractionsToMessages(chatHistory) ==
    IF chatHistory = <<>> THEN <<>>
    ELSE << Message("user", Head(chatHistory).prompt),
            Message("assistant", Head(chatHistory).response) >>
         \o InteractionsToMessages(Tail(chatHistory))

\* chatHistoryToMessages, lines 129-141
chatHistoryToMessages(chatHistory) ==
    IF ~chatHistory.def THEN <<>> ELSE InteractionsToMessages(chatHistory.val)

\* BuildMessages with a slip: context !== undefined in place of its truthiness
BuildMessagesContextDefined(context, chatHistory, text) ==
    (IF context # Undefined THEN << Message("system", context) >> ELSE <<>>)
    \o chatHistoryToMessages(chatHistory)
    \o << Message("user", text) >>

\* lines 81-83: the system message, the history, the new user message
BuildMessages(context, chatHistory, text) ==
    (IF Truthy(context) THEN << Message("system", context) >> ELSE <<>>)
    \o chatHistoryToMessages(chatHistory)
    \o << Message("user", text) >>

InitMessages ==
    /\ contextOption \in Contexts
    /\ historyOption \in Histories
    /\ promptArg \in Prompts
    /\ builtMessages = <<>>

\* request(model, prompt, options), lines 81-95: the request is built
BuildLiteLLMMessages ==
    /\ builtMessages = <<>>
    /\ builtMessages' = BuildMessages(contextOption, historyOption, promptArg)
    /\ UNCHANGED <<contextOption, historyOption, promptArg, besidesMessages>>

NextMessages == BuildLiteLLMMessages

\* ---------------------------------------------------------------------------
\* Specifications: one per component, the other components at rest
\* ---------------------------------------------------------------------------

StreamAtRest ==
    /\ chunkCallback = "none"
    /\ fed = <<>>
    /\ chunks = 0
    /\ chunkStart = 1
    /\ pos = 0
    /\ tstate = "idle"
    /\ out = <<>>
    /\ nextId = 1
    /\ pending = ""
    /\ callbacks = 0
    /\ sources = <<>>
    /\ doneAt = -1

RouterAtRest ==
    /\ models = <<>>
    /\ requestModels = <<>>
    /\ rstate = "PENDING"
    /\ candidates = <<>>
    /\ current = 0
    /\ attempts = <<>>
    /\ lastError = NoError
    /\ reply = NoResponse

CheckAtRest ==
    /\ statusCode = 200
    /\ providerName = <<>>
    /\ errorText = <<>>
    /\ checked = NotChecked
    /\ operation = "request"
    /\ returned = "nothing"

MessagesAtRest ==
    /\ contextOption = Undefined
    /\ historyOption = None
    /\ promptArg = "p"
    /\ builtMessages = <<>>

ClientAtRest ==
    /\ providerArg = "litellm"
    /\ created = NotCreated
    /\ constructed = <<>>
    /\ baseUrl = "valid"
    /\ apiKeyOption = ""
    /\ clientExtraHeaders = NoHeaders
    /\ requestApiKey = Undefined
    /\ requestExtraHeaders = NoHeaders
    /\ initOutcome = "not called"
    /\ api = None
    /\ pool = "none"
    /\ sent = <<>>
    /\ closeOutcome = "not called"

PipelineAtRest ==
    /\ sreq = "none"
    /\ upstream = "none"

FinishAtRest ==
    /\ finishReason = Undefined
    /\ messageContent = Undefined
    /\ bufferedResult = NoResponse
    /\ streamedFrames = <<>>

StreamInit == InitStream /\ RouterAtRest /\ CheckAtRest /\ FinishAtRest /\ PipelineAtRest /\ ClientAtRest /\ MessagesAtRest
RouterInit == InitRouter /\ StreamAtRest /\ CheckAtRest /\ FinishAtRest /\ PipelineAtRest /\ ClientAtRest /\ MessagesAtRest
CheckInit == InitCheck /\ StreamAtRest /\ RouterAtRest /\ FinishAtRest /\ PipelineAtRest /\ ClientAtRest /\ MessagesAtRest
FinishInit == InitFinish /\ StreamAtRest /\ RouterAtRest /\ CheckAtRest /\ PipelineAtRest /\ ClientAtRest /\ MessagesAtRest
PipelineInit == InitPipeline /\ CheckAtRest /\ FinishAtRest /\ ClientAtRest /\ MessagesAtRest
ClientInitial ==
    /\ InitClient /\ StreamAtRest /\ RouterAtRest /\ CheckAtRest /\ FinishAtRest
    /\ PipelineAtRest /\ MessagesAtRest
MessagesInit ==
    /\ InitMessages /\ StreamAtRest /\ RouterAtRest /\ CheckAtRest /\ FinishAtRest
    /\ PipelineAtRest /\ ClientAtRest

SpecStream == StreamInit /\ [][NextStream]_vars
SpecRouter == RouterInit /\ [][NextRouter]_vars
SpecCheck == CheckInit /\ [][NextCheck]_vars
SpecFinish == FinishInit /\ [][NextFinish]_vars
SpecPipeline == PipelineInit /\ [][NextPipeline]_vars
SpecClient == ClientInitial /\ [][NextClient]_vars
SpecMessages == MessagesInit /\ [][NextMessages]_vars

\* pipeline's teardown runs from the streams' event listeners, which the event
\* loop always gets to
SpecPipelineFair ==
    /\ SpecPipeline
    /\ WF_vars(PipelineDestroysUpstream)
    /\ WF_vars(PipelineDestroysTransformer)

\* ---------------------------------------------------------------------------
\* Properties of the stream transformer (under SpecStream)
\* ---------------------------------------------------------------------------

\* a data-only record whose data decodes to a delta
IsDeltaRecord(r) == ~Truthy(r.event) /\ ~DecodeThrows(r.data)
\* ... without / with a finish reason
IsContentDelta(r) == IsDeltaRecord(r) /\ ~Truthy(r.data.json.finish)
IsFinishRecord(r) == IsDeltaRecord(r) /\ Truthy(r.data.json.finish)

\* the stream delivered so far is N content deltas followed by one finish record
DeltasThenFinish ==
    /\ Len(fed) >= 1
    /\ \A i \in 1..(Len(fed) - 1) : IsContentDelta(fed[i])
    /\ IsFinishRecord(fed[Len(fed)])

\* every chunk written so far has been transformed, and no stage has failed
Settled == tstate = "idle"

C3_NothingAfterError ==
    \A i \in 1..Len(out) : FrameKind(out[i]) = "error" => i = Len(out)

\* C4 as stated: the output is zero or more content events followed by at most
\* one terminal event (end or error), so every event but the last is a content
\* event.
C4_ContentThenOneTerminal ==
    \A i \in 1..(Len(out) - 1) : FrameKind(out[i]) = "content"

\* C5 as stated: no two events emitted on one stream have the same id.
C5_UniqueEventIds ==
    \A i \in 1..Len(out) : \A j \in 1..Len(out) :
        i # j => FrameId(out[i]) # FrameId(out[j])

\* ---------------------------------------------------------------------------
\* Properties of the router and of the buffered adapters (under SpecRouter)
\* ---------------------------------------------------------------------------

\* C1: the candidates are tried in list order, no adapter is invoked after a
\* successful adapter call, and the router's result is exactly the result of
\* the first candidate whose adapter call succeeded.
C1_FirstSuccessWins ==
    /\ \A i \in 1..Len(attempts) :
          /\ attempts[i].candidate = candidates[i]
          /\ i < Len(attempts) => ~attempts[i].outcome.ok
    /\ rstate = "SUCCEEDED" =>
          /\ Len(attempts) >= 1
          /\ attempts[Len(attempts)].outcome.ok
          /\ reply = attempts[Len(attempts)].outcome
    /\ (Len(attempts) >= 1 /\ attempts[Len(attempts)].outcome.ok) => rstate = "SUCCEEDED"

\* the first of two candidates succeeded: the second was never invoked
C1_Witness ==
    /\ rstate = "SUCCEEDED"
    /\ Len(candidates) = 2
    /\ Len(attempts) = 1
    /\ reply.ok

\* C6: when every candidate's adapter call has failed the request is
\* EXHAUSTED and fails with exactly the failure of the last candidate tried;
\* and it is EXHAUSTED only then.
C6_LastFailureSurfaces ==
    /\ rstate = "EXHAUSTED" =>
          /\ Len(attempts) = Len(candidates)
          /\ \A i \in 1..Len(attempts) : ~attempts[i].outcome.ok
          /\ reply = Failed(attempts[Len(attempts)].outcome.error)
    /\ ( /\ rstate # "PENDING"
         /\ Len(attempts) = Len(candidates)
         /\ \A i \in 1..Len(attempts) : ~attempts[i].outcome.ok ) => rstate = "EXHAUSTED"

\* two candidates failed with different failures
C6_Witness ==
    /\ rstate = "EXHAUSTED"
    /\ Len(attempts) = 2
    /\ attempts[1].outcome.error # attempts[2].outcome.error
    /\ reply.error = attempts[2].outcome.error

\* C7: a request that names models is served from exactly those, in the
\* caller's order, whatever the configured list is; a request that names none
\* is served from the configured list, in its order.
C7_ExplicitModelsOverride ==
    rstate # "PENDING" =>
        /\ requestModels # <<>> =>
              /\ Len(candidates) = Len(requestModels)
              /\ \A i \in 1..Len(attempts) : Token(attempts[i].candidate) = requestModels[i]
        /\ requestModels = <<>> =>
              /\ candidates = models
              /\ \A i \in 1..Len(attempts) : attempts[i].candidate = models[i]

\* the request named a model of a provider the configured list does not hold,
\* and that provider's adapter answered
C7_Witness ==
    /\ rstate = "SUCCEEDED"
    /\ requestModels # <<>>
    /\ \A i \in 1..Len(models) : models[i] # attempts[1].candidate
    /\ Token(attempts[1].candidate) = requestModels[1]

\* a response body without extractable text: choices missing or empty, message
\* missing, content absent or empty
NoExtractableText(body) ==
    \/ "choices" \notin DOMAIN body
    \/ body.choices = <<>>
    \/ "message" \notin DOMAIN body.choices[1]
    \/ "content" \notin DOMAIN body.choices[1].message
    \/ body.choices[1].message.content = ""

C9_SingleProviderText ==
    ( /\ rstate \in {"SUCCEEDED", "EXHAUSTED"}
      /\ Len(requestModels) = 1
      /\ attempts[1].client = [threw |-> FALSE,
                               body |-> TestResponse(attempts[1].candidate.provider)] )
    => /\ reply.ok
       /\ reply.text = TestText(attempts[1].candidate.provider)

\* ---------------------------------------------------------------------------
\* Properties of the response check (under SpecCheck)
\* ---------------------------------------------------------------------------

\* needle occurs in hay
Contains(hay, needle) ==
    \E i \in 0..(Len(hay) - Len(needle)) : SubSeq(hay, i + 1, i + Len(needle)) = needle

\* hay ends with needle
EndsWith(hay, needle) ==
    /\ Len(hay) >= Len(needle)
    /\ SubSeq(hay, Len(hay) - Len(needle) + 1, Len(hay)) = needle

\* the three digits of a status code
StatusDigits(status) ==
    LET char == [d \in 0..9 |-> <<"0", "1", "2", "3", "4", "5", "6", "7", "8", "9">>[d + 1]]
    IN <<char[status \div 100], char[(status \div 10) % 10], char[status % 10]>>

\* C10: the response check fails with the quota-exceeded error for status 429
\* and with the generic response error for every other non-2xx status, and the
\* message of either error holds the provider name, the status and, at its
\* end, the body text as it was read.
C10_ResponseCheckClassifies ==
    checked # NotChecked =>
        /\ statusCode = 429 =>
              checked.state = "threw" /\ checked.code = "PROVIDER_EXCEEDED_QUOTA_ERROR"
        /\ (statusCode # 429 /\ statusCode \notin 200..299) =>
              checked.state = "threw" /\ checked.code = "PROVIDER_RESPONSE_ERROR"
        /\ checked.state = "threw" =>
              /\ Contains(checked.message, providerName)
              /\ Contains(checked.message, StatusDigits(statusCode))
              /\ EndsWith(checked.message, errorText)

\* the test's case: 429 with body 'Rate limit exceeded' for 'TestProvider'
C10_Witness ==
    /\ statusCode = 429
    /\ checked.code = "PROVIDER_EXCEEDED_QUOTA_ERROR"
    /\ checked.message =
         <<"A", "i", " ", "P", "r", "o", "v", "i", "d", "e", "r", " ",
           "R", "e", "s", "p", "o", "n", "s", "e", ":", " ",
           "T", "e", "s", "t", "P", "r", "o", "v", "i", "d", "e", "r", " ",
           "R", "e", "s", "p", "o", "n", "s", "e", ":", " ", "4", "2", "9", " ", "-", " ",
           "R", "a", "t", "e", " ", "l", "i", "m", "i", "t", " ",
           "e", "x", "c", "e", "e", "d", "e", "d">>

\* ---------------------------------------------------------------------------
\* Properties of the finish-reason mapping (under SpecFinish)
\* ---------------------------------------------------------------------------

\* the result the specification gives for a finish reason
ExpectedResult(finish) ==
    CASE finish = "stop" -> "COMPLETE"
      [] finish = "length" -> "INCOMPLETE_MAX_TOKENS"
      [] OTHER -> "INCOMPLETE_UNKNOWN"

EndFrames(frames) == { i \in 1..Len(frames) : FrameKind(frames[i]) = "end" }

\* C11: 'stop' maps to COMPLETE, 'length' to INCOMPLETE_MAX_TOKENS and every
\* other finish reason, an absent one included, to INCOMPLETE_UNKNOWN, in the
\* result of the buffered response and in the data of the streamed end event
C11_FinishReasonMapping ==
    /\ bufferedResult.ok => bufferedResult.result = ExpectedResult(finishReason)
    /\ \A i \in EndFrames(streamedFrames) :
          FrameData(streamedFrames[i]).response = ExpectedResult(finishReason)

\* an answer cut short by a content filter has gone down both paths
C11_Witness ==
    /\ finishReason = "content_filter"
    /\ bufferedResult.ok
    /\ bufferedResult.result = "INCOMPLETE_UNKNOWN"
    /\ EndFrames(streamedFrames) # {}

\* ---------------------------------------------------------------------------
\* Properties of the streaming path (under SpecPipeline, SpecPipelineFair)
\* ---------------------------------------------------------------------------

\* a stage of the pipeline has failed
StageFailed == tstate = "errored" \/ upstream = "errored"

\* the holder of the transformer has seen the error, and the byte stream is closed
TornDown == tstate = "errored" /\ upstream # "open"

\* C12: when a stage of the streaming pipeline fails (decode, chunk callback or
\* byte stream), the transformer is destroyed with the error, which its holder
\* observes, and the byte stream does not stay open
C12_FailureTearsDownPipeline == StageFailed ~> TornDown

\* a record failed to decode or the chunk callback rejected, and the pipeline
\* has destroyed the byte stream
C12_Witness ==
    /\ tstate = "errored"
    /\ upstream = "destroyed"
    /\ Len(fed) >= 1

\* C13: on the streaming path the request returns the transformer when
\* client.stream has resolved, before any chunk has gone through the pipeline,
\* and nothing that happens in the pipeline afterwards changes the outcome of
\* the returned request
C13_ReturnsBeforePipelineCompletes ==
    [][ /\ (upstream # "open" /\ upstream' = "open")
            => (sreq' = "returned" /\ chunks' = 0 /\ out' = <<>>)
        /\ sreq = "returned" => sreq' = "returned" ]_vars

\* the caller holds the returned transformer and has read an event from it,
\* the byte stream is still open, and the pipeline has failed
C13_Witness ==
    /\ sreq = "returned"
    /\ upstream = "open"
    /\ Len(out) >= 1
    /\ tstate = "errored"

\* C20: a failure of the transformer leaves the router where it was, at
\* SUCCEEDED with the stream as its result: no further candidate is tried, the
\* candidate is not called again, and the failure shows on the stream
C20_StreamFailureStaysOnStream ==
    [][ tstate' = "errored"
        => (rstate = "SUCCEEDED" /\ reply = StreamResult /\ routerVars' = routerVars) ]_vars

\* a record failed to decode or the chunk callback rejected, a further
\* candidate exists, and the router made no call after the one that succeeded
C20_Witness ==
    /\ tstate = "errored"
    /\ upstream \in {"open", "destroyed"}
    /\ rstate = "SUCCEEDED"
    /\ current < Len(candidates)
    /\ Len(attempts) = current

\* ---------------------------------------------------------------------------
\* Properties of createAiProvider and of the LiteLLM client (under SpecClient)
\* ---------------------------------------------------------------------------

\* the value of a header, None when it is absent
HeaderOf(h, name) == IF name \in DOMAIN h THEN Some(h[name]) ELSE None

\* the Authorization header the specification asks for
ExpectedAuthorization ==
    IF Truthy(requestApiKey) THEN Some(Bearer(requestApiKey))
    ELSE IF Truthy(apiKeyOption) THEN Some(Bearer(apiKeyOption))
    ELSE None

\* the extra headers the caller supplied, with the client options or the request
SuppliedExtraHeaders == Spread(clientExtraHeaders, requestExtraHeaders)

\* C14: every HTTP request, of the buffered and of the stream operation, carries
\* Authorization: Bearer <override> when the request has an apiKey override,
\* else Bearer <configured key> when that is non-empty, else none, and carries
\* the extra headers the caller supplied
C14_AuthorizationAndExtraHeaders ==
    \A i \in 1..Len(sent) :
        /\ HeaderOf(sent[i].headers, "Authorization") = ExpectedAuthorization
        /\ \A name \in DOMAIN SuppliedExtraHeaders :
              HeaderOf(sent[i].headers, name) = Some(SuppliedExtraHeaders[name])

\* C15: close does not throw in any state after init, and no pool is open once
\* it has been called
C15_CloseIsSafe ==
    /\ closeOutcome # "threw"
    /\ closeOutcome # "not called" => pool # "open"

\* the adapter class the specification names for a provider
ExpectedAdapter(name) ==
    CASE name = "openai" -> "OpenAIProvider"
      [] name = "deepseek" -> "DeepSeekProvider"
      [] name = "gemini" -> "GeminiProvider"
      [] name = "litellm" -> "LiteLLMProvider"

\* C16: createAiProvider returns the adapter of the provider name for openai,
\* deepseek, gemini and litellm; for any other name it throws an OptionError,
\* no adapter is constructed then or later, and nothing is initialised
C16_UnknownProviderIsFatal ==
    created # NotCreated =>
        IF providerArg \in {"openai", "deepseek", "gemini", "litellm"}
        THEN /\ created.ok
             /\ created.adapter = ExpectedAdapter(providerArg)
             /\ constructed = <<ExpectedAdapter(providerArg)>>
        ELSE /\ ~created.ok
             /\ created.error.code = "OPTION_ERROR"
             /\ constructed = <<>>
             /\ initOutcome = "not called"

\* createAiProvider has thrown for a name that differs from a known one by case
C16_Witness ==
    /\ providerArg = "OpenAI"
    /\ created # NotCreated
    /\ ~created.ok

\* ---------------------------------------------------------------------------
\* Further properties of the router (under SpecRouter)
\* ---------------------------------------------------------------------------

\* C17: the adapter calls of a request are made one after the other down the
\* candidate list: while a call is pending every earlier candidate's call has
\* completed with a failure, only the last call made can have succeeded, and
\* the i-th call is the call of the i-th candidate, so none is called twice
C17_SequentialNoRetry ==
    /\ rstate = "TRYING" => Len(attempts) = current - 1
    /\ Len(attempts) <= Len(candidates)
    /\ \A i \in 1..Len(attempts) :
          /\ attempts[i].candidate = candidates[i]
          /\ i < Len(attempts) => ~attempts[i].outcome.ok
          /\ rstate = "TRYING" => ~attempts[i].outcome.ok
    /\ \A i \in 1..Len(attempts) : \A j \in 1..Len(attempts) :
          i # j => attempts[i].candidate # attempts[j].candidate

\* both candidates of a request have been called, one after the other, and failed
C17_Witness ==
    /\ rstate = "EXHAUSTED"
    /\ Len(candidates) = 2
    /\ Len(attempts) = 2

\* ---------------------------------------------------------------------------
\* Further properties of the stream transformer (under SpecStream)
\* ---------------------------------------------------------------------------

ContentFrames == { i \in 1..Len(out) : FrameKind(out[i]) = "content" }

\* content ?? '' of a record that decodes to a delta
RawContent(r) == IF r.data.json.content = Undefined THEN "" ELSE r.data.json.content

\* C18: the content events are in the arrival order of their records, within
\* a chunk and across chunks; a chunk callback is running only when every
\* earlier record of the chunk has had its callback and its content event;
\* the content emitted for a record is what the callback returned for it
C18_ContentInArrivalOrder ==
    /\ \A i \in ContentFrames : \A j \in ContentFrames :
          i < j => sources[i] < sources[j]
    /\ \A i \in ContentFrames :
          FrameData(out[i]).response =
              IF chunkCallback = "none" THEN RawContent(fed[sources[i]])
              ELSE ApplyChunkCallback(RawContent(fed[sources[i]]))
    /\ tstate = "awaiting" =>
          /\ pending = RawContent(fed[pos])
          /\ \A i \in 1..Len(out) : sources[i] < pos
          /\ \A j \in chunkStart..(pos - 1) :
                IsDeltaRecord(fed[j]) => \E i \in ContentFrames : sources[i] = j

\* two rewritten content events are out, from records of different chunks or
\* of one, and the callback for a third record is running
C18_Witness ==
    /\ chunkCallback # "none"
    /\ Cardinality(ContentFrames) >= 2
    /\ chunks >= 2
    /\ tstate = "awaiting"

\* C19: once a [DONE] record has been handled no event is emitted, for no
\* record that follows it in the same chunk or in a later chunk
C19_NothingAfterDone == doneAt # -1 => Len(out) = doneAt

\* ---------------------------------------------------------------------------
\* Further properties of the response check (under SpecCheck)
\* ---------------------------------------------------------------------------

\* C21: in request and in stream the response check throws exactly when the
\* status is outside 200..299; with a status inside it the operation returns
\* the body, parsed for request and as the byte stream for stream
C21_ChecksNon2xxOnly ==
    checked # NotChecked =>
        /\ checked.state = "threw" <=> statusCode \notin 200..299
        /\ statusCode \in 200..299 =>
              returned = IF operation = "request" THEN "responseData" ELSE "Readable"

\* ---------------------------------------------------------------------------
\* Properties of the message list (under SpecMessages)
\* ---------------------------------------------------------------------------

\* the interactions of the history, none when it is undefined
HistoryEntries == IF historyOption.def THEN historyOption.val ELSE <<>>

\* 1 when the context is a non-empty string, else 0
SystemCount == IF contextOption # Undefined /\ contextOption # "" THEN 1 ELSE 0

\* C22: the messages are the system message of a non-empty context, then for
\* each interaction of the history, oldest first, its prompt as a user message
\* followed by its response as an assistant message, then the new prompt as
\* the one final user message
C22_MessageListLayout ==
    builtMessages # <<>> =>
        /\ Len(builtMessages) = SystemCount + 2 * Len(HistoryEntries) + 1
        /\ SystemCount = 1 => builtMessages[1] = [role |-> "system", content |-> contextOption]
        /\ \A i \in 1..Len(builtMessages) :
              builtMessages[i].role = "system" => (i = 1 /\ SystemCount = 1)
        /\ \A k \in 1..Len(HistoryEntries) :
              /\ builtMessages[SystemCount + 2 * k - 1] =
                    [role |-> "user", content |-> HistoryEntries[k].prompt]
              /\ builtMessages[SystemCount + 2 * k] =
                    [role |-> "assistant", content |-> HistoryEntries[k].response]
        /\ builtMessages[Len(builtMessages)] = [role |-> "user", content |-> promptArg]

\* a request with a context and two interactions of history has been built
C22_Witness ==
    /\ contextOption = "be brief"
    /\ Len(HistoryEntries) = 2
    /\ Len(builtMessages) = 6

\* ---------------------------------------------------------------------------
\* Properties of the handling of a chunk (under SpecStream)
\* ---------------------------------------------------------------------------

\* C23: the completion callback of a chunk has been called exactly once when
\* _transform is through with the chunk, whatever the records and whether the
\* chunk callback resolved or rejected, and not at all while _transform waits
\* for the chunk callback; it is never called twice
C23_CallbackOncePerChunk ==
    /\ callbacks <= 1
    /\ chunks = 0 => callbacks = 0
    /\ chunks >= 1 => (callbacks = 1 <=> tstate # "awaiting")

\* a second chunk has ended in the catch block after events had been pushed
C23_Witness ==
    /\ chunks >= 2
    /\ Len(out) >= 1
    /\ tstate = "errored"
    /\ callbacks = 1

\* a record the loop body has no branch for: a named event other than
\* 'error', or no event and no data
IsSkippedRecord(r) ==
    \/ (r.event # Undefined /\ r.event # "" /\ r.event # "error")
    \/ (r.event \in {Undefined, ""} /\ r.data.str \in {Undefined, ""})

\* the records of the latest chunk up to index j are all skipped records
SkippedUpTo(j) == \A k \in chunkStart..j : IsSkippedRecord(fed[k])

FramesOf(j) == { i \in 1..Len(out) : sources[i] = j }

\* C25: a record with a named event other than 'error', or with no event and
\* no data, yields no event, and the record after it in the chunk is handled:
\* an error record and a delta yield their events, undecodable data fails
\* the transformer
C25_SkippedRecordsAreInert ==
    /\ \A i \in 1..Len(out) : ~IsSkippedRecord(fed[sources[i]])
    /\ \A j \in (chunkStart + 1)..Len(fed) :
          SkippedUpTo(j - 1) =>
              /\ fed[j].event = "error" =>
                    \E i \in FramesOf(j) : FrameKind(out[i]) = "error"
              /\ (~Truthy(fed[j].event) /\ Truthy(fed[j].data.str)
                     /\ fed[j].data.str # "[DONE]" /\ DecodeThrows(fed[j].data)) =>
                    tstate = "errored"
              /\ IsDeltaRecord(fed[j]) =>
                    \/ \E i \in FramesOf(j) : FrameKind(out[i]) = "content"
                    \/ chunkCallback # "none" /\ tstate = "awaiting" /\ pos = j
                    \/ chunkCallback # "none" /\ tstate = "errored"

\* a chunk of a ping record, a record without data and a delta has yielded
\* the content event of the delta and nothing else
C25_Witness ==
    /\ Len(fed) = 3
    /\ chunkStart = 1
    /\ fed[1].event = "ping"
    /\ fed[2].event = Undefined /\ fed[2].data.str \in {Undefined, ""}
    /\ IsContentDelta(fed[3])
    /\ Len(out) = 1
    /\ sources = <<3>>

\* ---------------------------------------------------------------------------
\* Further properties of the streaming path (under SpecPipeline)
\* ---------------------------------------------------------------------------

\* C24: when client.stream rejects, the adapter's request rejects with the
\* same error and the candidate counts as failed: the next candidate is called,
\* or after the last one the failure is the reply; while no client.stream call
\* has resolved there is no byte stream, no transformer output and no stream
\* in the caller's hands
C24_StreamCallFailureFallsBack ==
    /\ \A i \in 1..Len(attempts) :
          attempts[i].client.threw =>
              /\ attempts[i].outcome = [ok |-> FALSE, error |-> attempts[i].client.error]
              /\ i < Len(candidates) =>
                    \/ Len(attempts) > i
                    \/ rstate = "TRYING" /\ current = i + 1
              /\ i = Len(candidates) =>
                    /\ rstate = "EXHAUSTED"
                    /\ reply = [ok |-> FALSE, error |-> attempts[i].client.error]
    /\ (\A i \in 1..Len(attempts) : attempts[i].client.threw) =>
          /\ upstream = "none"
          /\ sreq # "returned"
          /\ reply # StreamResult
          /\ chunks = 0
          /\ out = <<>>

\* the first candidate's client.stream was rejected, the second candidate's
\* resolved and its stream is open
C24_Witness ==
    /\ Len(attempts) = 2
    /\ attempts[1].client.threw
    /\ attempts[2].outcome = StreamResult
    /\ upstream = "open"

====
